---- MODULE Spec2Model ----
(***************************************************************************)
(* A model of the fixeddec crate: FixedDec<T, P>, a backing integer of     *)
(* kind T read as a decimal with P fractional digits, and the Number       *)
(* capability it is built on.                                              *)
(*                                                                         *)
(* The backing kinds modelled are the two 8-bit ones, u8 and i8, with      *)
(* their real width: every raw value of both kinds is explored.  A value   *)
(* is held in one slot (T, P, raw); each action is one call of the public  *)
(* interface, whose arguments and result are recorded in op/arg/argT/txt/  *)
(* res.  A result that is a FixedDec can then be bound to the slot, so     *)
(* that calls chain.                                                       *)
(***************************************************************************)
EXTENDS Integers, Sequences, FiniteSets, TLC

VARIABLES T, P, has, raw, overflow_checks, op, arg, argT, txt, echo, res

vars == <<T, P, has, raw, overflow_checks, op, arg, argT, txt, echo, res>>

(***************************************************************************)
(* Bounds of the exploration.                                              *)
(***************************************************************************)
\* digit counts (P, O, prec) range over 0..MaxDigits
MaxDigits == 3
\* texts given to from_str have at most MaxLen characters
MaxLen == 4

(***************************************************************************)
(* Backing kinds (number.rs:69, number.rs:74).                             *)
(***************************************************************************)
Bits == 8

Kinds == {"u8", "i8"}

Signed(k) == k = "i8"

RECURSIVE Pow(_, _)
Pow(b, e) == IF e = 0 THEN 1 ELSE b * Pow(b, e - 1)

MIN(k) == IF Signed(k) THEN 0 - Pow(2, Bits - 1) ELSE 0

MAX(k) == IF Signed(k) THEN Pow(2, Bits - 1) - 1 ELSE Pow(2, Bits) - 1

InRange(k, n) == MIN(k) <= n /\ n <= MAX(k)

Values(k) == MIN(k)..MAX(k)

\* two's complement wrap-around of the mathematical result n into kind k
Wrap(k, n) ==
    LET m == n % Pow(2, Bits)
    IN  IF Signed(k) /\ m > MAX(k) THEN m - Pow(2, Bits) ELSE m

Abs(n) == IF n < 0 THEN 0 - n ELSE n

\* Rust's integer / and %: the quotient is truncated toward zero and the
\* remainder has the sign of the dividend
TruncDiv(a, b) ==
    IF (a >= 0) = (b > 0) THEN Abs(a) \div Abs(b) ELSE 0 - (Abs(a) \div Abs(b))

TruncRem(a, b) == a - b * TruncDiv(a, b)

(***************************************************************************)
(* Results: Option<T> (Some/None), a plain return (Ret), Result (Ret/Err), *)
(* or a panic.                                                             *)
(***************************************************************************)
Some(x) == [tag |-> "Some", v |-> x]

None == [tag |-> "None", v |-> 0]

Ret(x) == [tag |-> "Ret", v |-> x]

Err == [tag |-> "Err", v |-> 0]

Panic == [tag |-> "panic", v |-> 0]

NoCall == [tag |-> "", v |-> 0]

(***************************************************************************)
(* impl Number for $ty (number.rs)                                         *)
(***************************************************************************)
ten_power(k, p) == IF Pow(10, p) <= MAX(k) THEN Some(Pow(10, p)) ELSE None

checked_add(k, a, b) == IF InRange(k, a + b) THEN Some(a + b) ELSE None

checked_sub(k, a, b) == IF InRange(k, a - b) THEN Some(a - b) ELSE None

\* (mutant of checked_mul: the product wrapped instead of refused)
checked_mul_wrapping(k, a, b) == Some(Wrap(k, a * b))

checked_mul(k, a, b) == IF InRange(k, a * b) THEN Some(a * b) ELSE None

\* (mutant of checked_div: the quotient rounded toward minus infinity)
checked_div_floor(k, a, b) ==
    IF b = 0 \/ ~InRange(k, a \div b) THEN None ELSE Some(a \div b)

checked_div(k, a, b) ==
    IF b = 0 \/ ~InRange(k, TruncDiv(a, b)) THEN None ELSE Some(TruncDiv(a, b))

\* the primitive kinds' own checked_rem: None on a zero divisor and on
\* MIN % -1
prim_checked_rem(k, a, b) ==
    IF b = 0 \/ ~InRange(k, TruncDiv(a, b)) THEN None ELSE Some(TruncRem(a, b))

\* iN::abs: MIN has no absolute value in the kind; with overflow checks the
\* call panics, without them it returns MIN
prim_abs(k, a, oc) ==
    IF a = MIN(k) THEN (IF oc THEN Panic ELSE Ret(a)) ELSE Ret(Abs(a))

checked_rem(k, a, b, oc) ==
    IF Signed(k)
    THEN LET m == prim_abs(k, a, oc)
         IN  IF m.tag = "panic" THEN Panic ELSE prim_checked_rem(k, m.v, b)
    ELSE prim_checked_rem(k, a, b)

\* the unchecked operators of the backing kind: overflow panics with
\* overflow checks and wraps without; a zero divisor and MIN / -1 always panic
prim_add(k, a, b, oc) ==
    IF InRange(k, a + b) THEN Ret(a + b)
    ELSE IF oc THEN Panic ELSE Ret(Wrap(k, a + b))

prim_sub(k, a, b, oc) ==
    IF InRange(k, a - b) THEN Ret(a - b)
    ELSE IF oc THEN Panic ELSE Ret(Wrap(k, a - b))

prim_mul(k, a, b, oc) ==
    IF InRange(k, a * b) THEN Ret(a * b)
    ELSE IF oc THEN Panic ELSE Ret(Wrap(k, a * b))

prim_div(k, a, b) ==
    IF b = 0 \/ ~InRange(k, TruncDiv(a, b)) THEN Panic ELSE Ret(TruncDiv(a, b))

\* U::try_from(t): the value when it is in U's range
try_from(u, t) == IF InRange(u, t) THEN Ret(t) ELSE Err

(***************************************************************************)
(* Text: a sequence of characters, each a one-character string.            *)
(***************************************************************************)
DigitChars == <<"0", "1", "2", "3", "4", "5", "6", "7", "8", "9">>

is_ascii_digit(c) == \E d \in 1..10 : DigitChars[d] = c

\* T::from_digit10: '0'..'9' to 0..9, anything else to None
from_digit10(c) ==
    IF is_ascii_digit(c)
    THEN Some((CHOOSE d \in 1..10 : DigitChars[d] = c) - 1)
    ELSE None

\* the decimal digits of n >= 0, as core::fmt writes them
RECURSIVE Digits(_)
Digits(n) ==
    IF n < 10 THEN <<DigitChars[n + 1]>>
    ELSE Digits(n \div 10) \o <<DigitChars[(n % 10) + 1]>>

RECURSIVE Zeros(_)
Zeros(n) == IF n <= 0 THEN <<>> ELSE <<"0">> \o Zeros(n - 1)

\* "{}" of an integer
fmt_int(n) == IF n < 0 THEN <<"-">> \o Digits(0 - n) ELSE Digits(n)

\* "{:0width$}" of an integer: width is a minimum, the zeros go after the sign
fmt_int_padded(n, width) ==
    LET sign == IF n < 0 THEN <<"-">> ELSE <<>>
        ds   == Digits(Abs(n))
    IN  sign \o Zeros(width - Len(sign) - Len(ds)) \o ds

(***************************************************************************)
(* impl FixedDec<T, P> (lib.rs)                                            *)
(***************************************************************************)
\* assert!(T::TEN_POWER.len() > P), "similar to
\* assert!(T::ten_power(P).is_some())"
new(k, p, t) == IF ten_power(k, p).tag = "Some" THEN Ret(t) ELSE Panic

from_integral(k, p, t) ==
    LET prec == ten_power(k, p)
    IN  IF prec.tag = "None" THEN None ELSE checked_mul(k, t, prec.v)

set_precision(k, p, v, o) ==
    IF p = o THEN Some(v)
    ELSE IF p > o
    THEN LET prec == ten_power(k, p - o)
         IN  IF prec.tag = "None" THEN None ELSE checked_div(k, v, prec.v)
    ELSE LET prec == ten_power(k, o - p)
         IN  IF prec.tag = "None" THEN None ELSE checked_mul(k, v, prec.v)

try_into(k, v, u) == try_from(u, v)

round_at(k, p, v, prec, oc) ==
    IF prec >= p THEN Ret(v)
    ELSE LET wrap == ten_power(k, p - prec)
         IN  IF wrap.tag = "None" THEN Panic
             ELSE LET r == checked_rem(k, v, wrap.v, oc)
                  IN  IF r.tag \in {"None", "panic"} THEN Panic
                      ELSE prim_sub(k, v, r.v, oc)

integral(k, p, v) ==
    LET prec == ten_power(k, p)
        q    == IF prec.tag = "None" THEN None ELSE checked_div(k, v, prec.v)
    IN  IF q.tag = "None" THEN Panic ELSE Ret(q.v)

fractional(k, p, v, oc) ==
    LET prec == ten_power(k, p)
        r    == IF prec.tag = "None" THEN None ELSE checked_rem(k, v, prec.v, oc)
    IN  IF r.tag \in {"None", "panic"} THEN Panic ELSE Ret(r.v)

value(v) == Ret(v)

\* impl Debug / Display: "{}.{:0width$}" of integral(), fractional(), P.
\* The text when neither part panics, <<>> otherwise (see fmt_panics).
fmt(k, p, v, oc) ==
    LET i == integral(k, p, v)
        f == fractional(k, p, v, oc)
    IN  IF i.tag = "panic" \/ f.tag = "panic" THEN <<>>
        ELSE fmt_int(i.v) \o <<".">> \o fmt_int_padded(f.v, p)

fmt_panics(k, p, v, oc) ==
    integral(k, p, v).tag = "panic" \/ fractional(k, p, v, oc).tag = "panic"

all_digits(cs) == \A n \in 1..Len(cs) : is_ascii_digit(cs[n])

HasDot(s) == \E n \in 1..Len(s) : s[n] = "."

\* s.split_once('.'): the text before and after the first '.'
FirstDot(s) == CHOOSE n \in 1..Len(s) : s[n] = "." /\ \A m \in 1..(n - 1) : s[m] # "."

split_once(s) ==
    [i1 |-> SubSeq(s, 1, FirstDot(s) - 1), f1 |-> SubSeq(s, FirstDot(s) + 1, Len(s))]

Min(a, b) == IF a < b THEN a ELSE b

\* (mutant of frac_prefix: the loop over f1 without its break)
frac_prefix_all(f1, p) == f1

\* the characters of f1 the fractional loop accumulates: it breaks at
\* depth >= P
frac_prefix(f1, p) == SubSeq(f1, 1, Min(Len(f1), p))

\* (mutant of accumulate: unchecked arithmetic, which wraps)
RECURSIVE accumulate_wrapping(_, _, _)
accumulate_wrapping(k, acc, cs) ==
    IF cs = <<>> THEN Some(acc)
    ELSE LET i == from_digit10(Head(cs))
         IN  IF i.tag = "None" THEN None
             ELSE accumulate_wrapping(k, Wrap(k, acc * 10 + i.v), Tail(cs))

\* acc = acc.checked_mul(ten)?.checked_add(i)? over the characters cs
RECURSIVE accumulate(_, _, _)
accumulate(k, acc, cs) ==
    IF cs = <<>> THEN Some(acc)
    ELSE LET i == from_digit10(Head(cs))
             m == IF i.tag = "None" THEN None ELSE checked_mul(k, acc, 10)
             a == IF m.tag = "None" THEN None ELSE checked_add(k, m.v, i.v)
         IN  IF a.tag = "None" THEN None ELSE accumulate(k, a.v, Tail(cs))

from_str(k, p, s) ==
    IF ten_power(k, 1).tag = "None" THEN Panic
    ELSE IF HasDot(s)
    THEN LET i1 == split_once(s).i1
             f1 == split_once(s).f1
         IN  IF ~all_digits(i1) \/ ~all_digits(f1) THEN None
             ELSE LET a1      == accumulate(k, 0, i1)
                      sz_frac == Len(f1)
                      a2      == IF a1.tag = "None" THEN None
                                 ELSE accumulate(k, a1.v, frac_prefix(f1, p))
                      mul     == IF sz_frac < p THEN ten_power(k, p - sz_frac) ELSE Some(1)
                      a3      == IF a2.tag = "None" \/ mul.tag = "None" THEN None
                                 ELSE IF sz_frac < p THEN checked_mul(k, a2.v, mul.v)
                                 ELSE a2
                  IN  IF a3.tag = "None" THEN None
                      ELSE IF new(k, p, a3.v).tag = "panic" THEN Panic
                      ELSE Some(a3.v)
    ELSE IF ~all_digits(s) THEN None
         ELSE LET acc == accumulate(k, 0, s)
              IN  IF acc.tag = "None" THEN None ELSE from_integral(k, p, acc.v)

(***************************************************************************)
(* The state machine: one slot holding a FixedDec<T, P>, and the last call.*)
(***************************************************************************)
\* the characters texts are drawn from: digits, the separator, a sign and a
\* letter
Alphabet == {"0", "1", "2", "5", "9", ".", "-", "a"}

Strings == UNION {[1..n -> Alphabet] : n \in 0..MaxLen}

\* scalar and right-hand operands: the ends of the kind's range and small values
Operands(k) ==
    {n \in {MIN(k), MIN(k) + 1, -10, -3, -1, 0, 1, 3, 10, MAX(k) - 1, MAX(k)} :
        InRange(k, n)}

Init ==
    /\ T \in Kinds
    /\ P \in 0..MaxDigits
    /\ overflow_checks \in BOOLEAN
    /\ has = FALSE
    /\ raw = 0
    /\ op = ""
    /\ arg = 0
    /\ argT = ""
    /\ txt = <<>>
    /\ echo = FALSE
    /\ res = NoCall

Idle == op = ""

\* the record of a call on the slot, which the call leaves as it is
Call(name, a, r) ==
    /\ op' = name
    /\ arg' = a
    /\ res' = r
    /\ UNCHANGED <<T, P, has, raw, overflow_checks, argT, txt, echo>>

\* the record of an assigning operator, which writes its result into the slot
Assign(name, a, r) ==
    /\ op' = name
    /\ arg' = a
    /\ res' = r
    /\ raw' = IF r.tag = "Ret" THEN r.v ELSE raw
    /\ UNCHANGED <<T, P, has, overflow_checks, argT, txt, echo>>

New == Idle /\ ~has /\ \E t \in Values(T) : Call("new", t, new(T, P, t))

FromIntegral ==
    Idle /\ ~has /\ \E t \in Values(T) : Call("from_integral", t, from_integral(T, P, t))

\* the record of a from_str call on the text s
Parse(s) ==
    /\ op' = "from_str"
    /\ arg' = 0
    /\ txt' = s
    /\ res' = from_str(T, P, s)
    /\ UNCHANGED <<T, P, has, raw, overflow_checks, argT>>

\* from_str of a text of the caller's
FromStr == Idle /\ ~has /\ echo' = FALSE /\ \E s \in Strings : Parse(s)

\* from_str of the text Display has just produced for the slot's value
FromStrDisplayed == op = "fmt" /\ res.tag = "Ret" /\ echo' = TRUE /\ Parse(txt)

SetPrecision ==
    Idle /\ has /\ \E o \in 0..MaxDigits :
        Call("set_precision", o, set_precision(T, P, raw, o))

TryInto ==
    /\ Idle /\ has
    /\ \E u \in Kinds :
        /\ argT' = u
        /\ res' = try_into(T, raw, u)
    /\ op' = "try_into"
    /\ arg' = 0
    /\ UNCHANGED <<T, P, has, raw, overflow_checks, txt, echo>>

CheckedAdd ==
    Idle /\ has /\ \E rhs \in Operands(T) :
        Call("checked_add", rhs, checked_add(T, raw, rhs))

CheckedSub ==
    Idle /\ has /\ \E rhs \in Operands(T) :
        Call("checked_sub", rhs, checked_sub(T, raw, rhs))

CheckedMul ==
    Idle /\ has /\ \E rhs \in Operands(T) :
        Call("checked_mul", rhs, checked_mul(T, raw, rhs))

CheckedDiv ==
    Idle /\ has /\ \E rhs \in Operands(T) :
        Call("checked_div", rhs, checked_div(T, raw, rhs))

CheckedRem ==
    Idle /\ has /\ \E rhs \in Operands(T) :
        Call("checked_rem", rhs, checked_rem(T, raw, rhs, overflow_checks))

RoundAt ==
    Idle /\ has /\ \E prec \in 0..MaxDigits :
        Call("round_at", prec, round_at(T, P, raw, prec, overflow_checks))

Integral == Idle /\ has /\ Call("integral", 0, integral(T, P, raw))

Fractional == Idle /\ has /\ Call("fractional", 0, fractional(T, P, raw, overflow_checks))

Value == Idle /\ has /\ Call("value", 0, value(raw))

Fmt ==
    /\ Idle /\ has
    /\ op' = "fmt"
    /\ arg' = 0
    /\ txt' = fmt(T, P, raw, overflow_checks)
    /\ res' = IF fmt_panics(T, P, raw, overflow_checks) THEN Panic ELSE Ret(0)
    /\ UNCHANGED <<T, P, has, raw, overflow_checks, argT, echo>>

Add ==
    Idle /\ has /\ \E rhs \in Operands(T) :
        Call("add", rhs, prim_add(T, raw, rhs, overflow_checks))

Sub ==
    Idle /\ has /\ \E rhs \in Operands(T) :
        Call("sub", rhs, prim_sub(T, raw, rhs, overflow_checks))

Mul ==
    Idle /\ has /\ \E rhs \in Operands(T) :
        Call("mul", rhs, prim_mul(T, raw, rhs, overflow_checks))

Div == Idle /\ has /\ \E rhs \in Operands(T) : Call("div", rhs, prim_div(T, raw, rhs))

AddAssign ==
    Idle /\ has /\ \E rhs \in Operands(T) :
        Assign("add_assign", rhs, prim_add(T, raw, rhs, overflow_checks))

SubAssign ==
    Idle /\ has /\ \E rhs \in Operands(T) :
        Assign("sub_assign", rhs, prim_sub(T, raw, rhs, overflow_checks))

MulAssign ==
    Idle /\ has /\ \E rhs \in Operands(T) :
        Assign("mul_assign", rhs, prim_mul(T, raw, rhs, overflow_checks))

DivAssign ==
    Idle /\ has /\ \E rhs \in Operands(T) :
        Assign("div_assign", rhs, prim_div(T, raw, rhs))

\* the calls whose result is a FixedDec (bare, in an Option or in a Result)
ReturnsFixedDec ==
    {"new", "from_integral", "from_str", "set_precision", "try_into",
     "checked_add", "checked_sub", "checked_mul", "checked_div", "checked_rem",
     "round_at", "add", "sub", "mul", "div"}

\* the caller keeps the FixedDec a call returned: it is the slot's value from
\* now on, with the digit count and the kind of the result's type
Bind ==
    /\ op \in ReturnsFixedDec
    /\ res.tag \in {"Some", "Ret"}
    /\ has' = TRUE
    /\ raw' = res.v
    /\ P' = IF op = "set_precision" THEN arg ELSE P
    /\ T' = IF op = "try_into" THEN argT ELSE T
    /\ op' = ""
    /\ arg' = 0
    /\ argT' = ""
    /\ txt' = <<>>
    /\ echo' = FALSE
    /\ res' = NoCall
    /\ UNCHANGED overflow_checks

\* the caller goes on with the slot as it is; a panic ends the program
Continue ==
    /\ ~Idle
    /\ res.tag # "panic"
    /\ op' = ""
    /\ arg' = 0
    /\ argT' = ""
    /\ txt' = <<>>
    /\ echo' = FALSE
    /\ res' = NoCall
    /\ UNCHANGED <<T, P, has, raw, overflow_checks>>

Next ==
    \/ New
    \/ FromIntegral
    \/ FromStr
    \/ FromStrDisplayed
    \/ SetPrecision
    \/ TryInto
    \/ CheckedAdd
    \/ CheckedSub
    \/ CheckedMul
    \/ CheckedDiv
    \/ CheckedRem
    \/ RoundAt
    \/ Integral
    \/ Fractional
    \/ Value
    \/ Fmt
    \/ Add
    \/ Sub
    \/ Mul
    \/ Div
    \/ AddAssign
    \/ SubAssign
    \/ MulAssign
    \/ DivAssign
    \/ Bind
    \/ Continue

Spec == Init /\ [][Next]_vars

(***************************************************************************)
(* Properties.  They read the last call (op, arg, argT, txt, res) and the  *)
(* slot it was made on (T, P, raw), and state what the result must be in   *)
(* plain arithmetic.                                                       *)
(***************************************************************************)
\* 10^P fits the backing kind: a valid instantiation FixedDec<T, P>
ValidDigits(k, p) == Pow(10, p) <= MAX(k)

Scale == Pow(10, P)

DigitOf(c) == (CHOOSE d \in 1..10 : DigitChars[d] = c) - 1

\* the number a string of ASCII digits denotes (0 for the empty string)
RECURSIVE DecValue(_)
DecValue(cs) ==
    IF Len(cs) = 0 THEN 0
    ELSE DecValue(SubSeq(cs, 1, Len(cs) - 1)) * 10 + DigitOf(cs[Len(cs)])

OnlyDigits(cs) == \A n \in 1..Len(cs) : cs[n] \in {"0", "1", "2", "3", "4", "5", "6", "7", "8", "9"}

DotCount(s) == Cardinality({n \in 1..Len(s) : s[n] = "."})

Before(s) == SubSeq(s, 1, FirstDot(s) - 1)

After(s) == SubSeq(s, FirstDot(s) + 1, Len(s))

\* the first p characters of f, right-padded with zeros to p characters
PadRight(f, p) == [n \in 1..p |-> IF n <= Len(f) THEN f[n] ELSE "0"]

\* a text "I.F" or "I" of ASCII digits
WellFormed(s) ==
    IF DotCount(s) = 0 THEN OnlyDigits(s)
    ELSE DotCount(s) = 1 /\ OnlyDigits(Before(s)) /\ OnlyDigits(After(s))

\* the raw value a well-formed text denotes at p digits: I * 10^p + F'
Denoted(s, p) ==
    IF DotCount(s) = 0 THEN DecValue(s) * Pow(10, p)
    ELSE DecValue(Before(s)) * Pow(10, p) + DecValue(PadRight(After(s), p))

\* r is v with the digits below 10^d cut off, toward zero
TruncatedTo(r, v, d) ==
    /\ r % Pow(10, d) = 0
    /\ Abs(r) <= Abs(v)
    /\ Abs(v - r) < Pow(10, d)
    /\ (r = 0 \/ (r < 0) = (v < 0))

\* C1: from_str of the Display text of a value returns Some of that value,
\* for every kind, every valid digit count and every raw value, negative
\* ones included.
C1_RoundTrip == (op = "from_str" /\ echo) => res = Some(raw)

\* C2: round_at(t) with t < P returns v truncated toward zero to a multiple
\* of 10^(P-t), for negative v too; with t >= P it returns v unchanged; it
\* returns a value for every input.
C2_RoundAtTruncates ==
    (op = "round_at" /\ ValidDigits(T, P)) =>
        /\ res.tag = "Ret"
        /\ IF arg >= P THEN res.v = raw ELSE TruncatedTo(res.v, raw, P - arg)

\* C3: fractional() of a negative value of a signed kind, the kind's minimum
\* included, returns f with 0 <= f < 10^P, the magnitude of the fractional
\* digits; it never fails.
C3_FractionalMagnitude ==
    (op = "fractional" /\ Signed(T) /\ raw < 0 /\ ValidDigits(T, P)) =>
        /\ res.tag = "Ret"
        /\ 0 <= res.v /\ res.v < Scale
        /\ res.v = Abs(raw) % Scale

\* C4: the Display text is the integral part, one '.', then exactly P
\* fractional digit characters, left-padded with zeros; at P = 0 nothing
\* follows the dot.
C4_DisplayFormat ==
    (op = "fmt" /\ ValidDigits(T, P)) =>
        /\ res.tag = "Ret"
        /\ DotCount(txt) = 1
        /\ Before(txt) = fmt_int(TruncDiv(raw, Scale))
        /\ Len(After(txt)) = P
        /\ OnlyDigits(After(txt))
        /\ DecValue(After(txt)) = Abs(raw) % Scale

\* C5: set_precision::<O> returns Some(v) when P = O, Some(v / 10^(P-O))
\* truncated toward zero when P > O, Some(v * 10^(O-P)) when P < O and the
\* product fits, and None exactly when 10^|P-O| does not fit the kind or the
\* product overflows; never a wrapped value.
C5_SetPrecision ==
    op = "set_precision" =>
        LET d == Abs(P - arg)
        IN  /\ res.tag \in {"Some", "None"}
            /\ res.tag = "None" <=>
                   \/ ~ValidDigits(T, d)
                   \/ P < arg /\ ~InRange(T, raw * Pow(10, d))
            /\ res.tag = "Some" =>
                   /\ P = arg => res.v = raw
                   /\ P > arg => TruncatedTo(res.v * Pow(10, d), raw, d)
                   /\ P < arg => res.v = raw * Pow(10, d)

\* C6: from_str of a text "I.F" of ASCII digits whose value fits the kind
\* returns I * 10^P + F', with F' the first P digits of F right-padded with
\* zeros: digits beyond the P-th are dropped, without rounding and without
\* failure; a text without '.' gives from_integral(I).
C6_FromStrValue ==
    (op = "from_str" /\ ValidDigits(T, P) /\ WellFormed(txt)) =>
        /\ Denoted(txt, P) <= MAX(T) => res = Some(Denoted(txt, P))
        /\ (DotCount(txt) = 0 /\ DecValue(txt) <= MAX(T)) =>
               res = (IF DecValue(txt) * Scale <= MAX(T)
                      THEN Some(DecValue(txt) * Scale) ELSE None)

\* C7: from_str returns None for every text with a character other than an
\* ASCII digit on either side of the first '.', with a second '.', or whose
\* scaled value exceeds the kind's range; it never returns a partial, wrapped
\* or default value and never panics.
C7_FromStrFailure ==
    (op = "from_str" /\ ValidDigits(T, P)) =>
        /\ res.tag \in {"Some", "None"}
        /\ ~WellFormed(txt) => res = None
        /\ (WellFormed(txt) /\ Denoted(txt, P) > MAX(T)) => res = None
        /\ res.tag = "Some" => (WellFormed(txt) /\ res.v = Denoted(txt, P))

\* C8: from_integral and checked_add/sub/mul/div/rem return None when the
\* true result is outside the kind's range or the divisor is 0, and Some of
\* the exact result otherwise, for every operand including the kind's
\* minimum; none panics or wraps, and checked_rem is None only for rhs = 0.
C8_CheckedTotal ==
    /\ (op = "from_integral" /\ ValidDigits(T, P)) =>
           res = (IF InRange(T, arg * Scale) THEN Some(arg * Scale) ELSE None)
    /\ op = "checked_add" =>
           res = (IF InRange(T, raw + arg) THEN Some(raw + arg) ELSE None)
    /\ op = "checked_sub" =>
           res = (IF InRange(T, raw - arg) THEN Some(raw - arg) ELSE None)
    /\ op = "checked_mul" =>
           res = (IF InRange(T, raw * arg) THEN Some(raw * arg) ELSE None)
    /\ op = "checked_div" =>
           res = (IF arg = 0 \/ ~InRange(T, TruncDiv(raw, arg)) THEN None
                  ELSE Some(TruncDiv(raw, arg)))
    /\ op = "checked_rem" =>
           res = (IF arg = 0 THEN None ELSE Some(Abs(raw) % Abs(arg)))

\* C9: for v >= 0, integral(v) * 10^P + fractional(v) = v with
\* 0 <= fractional(v) < 10^P; for v < 0, integral(v) is v / 10^P truncated
\* toward zero.
C9_Decomposition ==
    /\ (op = "integral" /\ ValidDigits(T, P)) =>
           /\ res.tag = "Ret"
           /\ TruncatedTo(res.v * Scale, raw, P)
           /\ raw >= 0 => res.v * Scale + fractional(T, P, raw, overflow_checks).v = raw
    /\ (op = "fractional" /\ ValidDigits(T, P) /\ raw >= 0) =>
           /\ res.tag = "Ret"
           /\ 0 <= res.v /\ res.v < Scale
           /\ integral(T, P, raw).v * Scale + res.v = raw

\* C10: every FixedDec<T, P> obtained by any sequence of the public
\* operations has a digit count P such that 10^P fits its backing kind, so
\* that integral() never fails on it.  (fractional() and Display fail at a
\* signed kind's minimum whatever the digit count: that is C3.)
C10_DigitInvariant ==
    /\ has => ValidDigits(T, P)
    /\ op = "integral" => res.tag = "Ret"

(***************************************************************************)
(* Reachable cases of the properties above.                                *)
(***************************************************************************)
\* a narrowing of a negative value that drops non-zero digits
C5_Witness ==
    /\ op = "set_precision" /\ P > arg /\ raw < 0 /\ res.tag = "Some"
    /\ res.v * Pow(10, P - arg) # raw

\* a text with more fractional digits than P, accepted with the excess dropped
C6_Witness ==
    /\ op = "from_str" /\ P >= 1 /\ ValidDigits(T, P) /\ WellFormed(txt)
    /\ DotCount(txt) = 1 /\ Len(After(txt)) > P
    /\ txt[Len(txt)] = "9"
    /\ res.tag = "Some" /\ res.v > 0

\* a text of digits whose scaled value exceeds the kind's range, refused
C7_Witness ==
    /\ op = "from_str" /\ ValidDigits(T, P) /\ WellFormed(txt)
    /\ DotCount(txt) = 1 /\ Denoted(txt, P) > MAX(T)
    /\ res = None

\* the integral part of a negative value with non-zero fractional digits
C9_Witness ==
    /\ op = "integral" /\ Signed(T) /\ P >= 1 /\ ValidDigits(T, P)
    /\ raw < 0 /\ raw % Scale # 0 /\ res.tag = "Ret" /\ res.v < 0

====
